---- MODULE Spec2Model ----
(***************************************************************************)
(* Model of chemdataextractor/reader/elsevier.py: the Elsevier XML reader. *)
(* Strings are sequences of string tokens; an lxml attribute dictionary is *)
(* a function from the attribute names that are present to their values.   *)
(***************************************************************************)
EXTENDS Integers, Sequences, FiniteSets, TLC

VARIABLES
    pc,         \* the method about to run ("detect"), or "<method>_done"
    els,        \* _parse_table_rows: the row nodes handed in
    rows,       \* _parse_table_rows: the value returned
    fstring,    \* detect, parse: the file's bytes
    fname,      \* detect: the file name, <<>> for None and <<s>> for a string s
    detected,   \* detect: the value returned
    source,     \* fix_elsevier_xml_whitespace: the element as it was handed in
    document,   \* fix_elsevier_xml_whitespace: the element, changed in place
    el,         \* _parse_figure, _parse_metadata: the node handed in
    root,       \* _parse_figure: the document root handed in
    result      \* parse, _parse_figure, _parse_metadata: returned or raised

tvars == <<els, rows>>
dvars == <<fstring, fname, detected>>
hvars == <<source, document>>
rvars == <<el, root, result>>
vars == <<pc, els, rows, fstring, fname, detected, source, document, el, root, result>>

(***************************************************************************)
(* Bounds of the model.                                                    *)
(***************************************************************************)
MaxRows == 2        \* rows of a table
MaxCells == 3       \* ce:entry nodes of a table, over all its rows

(***************************************************************************)
(* Generic helpers.                                                        *)
(***************************************************************************)
EmptyMap == [x \in {} |-> x]

RECURSIVE SortedSeq(_)
SortedSeq(S) ==
    IF S = {} THEN <<>>
    ELSE LET m == CHOOSE x \in S : \A y \in S : x <= y
         IN <<m>> \o SortedSeq(S \ {m})

RECURSIVE Split(_, _, _)
\* str.split(sep) for a one-token separator: cur is the piece being read
Split(s, sep, cur) ==
    IF s = <<>> THEN <<cur>>
    ELSE IF Head(s) = sep THEN <<cur>> \o Split(Tail(s), sep, <<>>)
    ELSE Split(Tail(s), sep, Append(cur, Head(s)))

DigitVal == [d \in {"0", "1", "2", "3", "4", "5", "6", "7", "8", "9"} |->
                CASE d = "0" -> 0 [] d = "1" -> 1 [] d = "2" -> 2 [] d = "3" -> 3
                  [] d = "4" -> 4 [] d = "5" -> 5 [] d = "6" -> 6 [] d = "7" -> 7
                  [] d = "8" -> 8 [] d = "9" -> 9]

RECURSIVE IntOf(_, _)
\* int(s) for a string of decimal digits
IntOf(s, acc) ==
    IF s = <<>> THEN acc ELSE IntOf(Tail(s), 10 * acc + DigitVal[Head(s)])

Get(attrib, name, default) ==
    IF name \in DOMAIN attrib THEN attrib[name] ELSE default

(***************************************************************************)
(* ElsevierXmlReader._parse_table_rows                                     *)
(***************************************************************************)
\* A Cell object: its text and the ce:entry node it was parsed from
\* (<<>> for a cell built by Cell('')).
Cell(text, src) == [text |-> text, src |-> src]

\* truth value of a Cell, as any(r) reads it
CellTruth(cell) == cell.text # ""

\* int([i for i in td.get(name, '1').split('col') if i][0])
ColOf(td, name) ==
    LET pieces == Split(Get(td.attrib, name, <<"1">>), "col", <<>>)
    IN IntOf(Head(SelectSeq(pieces, LAMBDA p : p # <<>>)), 0)

\* the column span without the closing + 1
ColspanExclusive(td) == ColOf(td, "nameend") - ColOf(td, "namest")

\* colspan = (nameend - namest) + 1
Colspan(td) == (ColOf(td, "nameend") - ColOf(td, "namest")) + 1

Rowspan(td) == IntOf(Get(td.attrib, "morerows", <<"0">>), 0) + 1

RECURSIVE NextFree(_, _)
\* while colnum in hdict[rownum]: colnum += 1
NextFree(hrow, colnum) ==
    IF colnum \in DOMAIN hrow THEN NextFree(hrow, colnum + 1) ELSE colnum

RECURSIVE RowSpanLoop(_, _, _, _, _)
\* for j in range(rowspan): st is [hdict, colnum]
RowSpanLoop(st, row, cell, j, rowspan) ==
    IF j >= rowspan THEN st
    ELSE LET rownum == row + j
             h1 == IF rownum \notin DOMAIN st.hdict
                   THEN (rownum :> EmptyMap) @@ st.hdict
                   ELSE st.hdict
             colnum == NextFree(h1[rownum], st.colnum)
             h2 == [h1 EXCEPT ![rownum] = (colnum :> cell) @@ @]
         IN RowSpanLoop([hdict |-> h2, colnum |-> colnum], row, cell, j + 1, rowspan)

RECURSIVE ColSpanLoop(_, _, _, _, _, _)
\* for i in range(colspan): ...; colnum += 1
ColSpanLoop(st, row, cell, i, colspan, rowspan) ==
    IF i >= colspan THEN st
    ELSE LET s1 == RowSpanLoop(st, row, cell, 0, rowspan)
         IN ColSpanLoop([s1 EXCEPT !.colnum = @ + 1], row, cell, i + 1, colspan, rowspan)

RECURSIVE CellLoop(_, _, _, _)
\* for td in self._css(self.table_cell_css, tr)
CellLoop(st, row, tr, k) ==
    IF k > Len(tr) THEN st
    ELSE LET td == tr[k]
             cell == Cell(td.text, <<row, k>>)
         IN CellLoop(ColSpanLoop(st, row, cell, 0, Colspan(td), Rowspan(td)),
                     row, tr, k + 1)

RECURSIVE RowLoop(_, _, _)
\* for row, tr in enumerate(els): colnum = 0
RowLoop(hdict, trs, row) ==
    IF row >= Len(trs) THEN hdict
    ELSE RowLoop(CellLoop([hdict |-> hdict, colnum |-> 0], row, trs[row + 1], 1).hdict,
                 trs, row + 1)

\* rows.append([]); for col in sorted(hdict[row]): rows[-1].append(hdict[row][col])
GridRows(hdict) ==
    LET rs == SortedSeq(DOMAIN hdict)
    IN [n \in 1..Len(rs) |->
          LET cs == SortedSeq(DOMAIN hdict[rs[n]])
          IN [m \in 1..Len(cs) |-> hdict[rs[n]][cs[m]]]]

\* the length of the first row in place of the longest
FirstRowLen(rs) == Len(rs[1])

\* len(max(rows, key=len))
MaxRowLen(rs) ==
    CHOOSE n \in {Len(rs[i]) : i \in 1..Len(rs)} : \A i \in 1..Len(rs) : Len(rs[i]) <= n

RECURSIVE PadLoop(_, _)
\* for r in rows: r.extend([Cell('')] * (len(max(rows, key=len)) - len(r)))
PadLoop(rs, n) ==
    IF n > Len(rs) THEN rs
    ELSE LET k == MaxRowLen(rs) - Len(rs[n])
         IN PadLoop([rs EXCEPT ![n] = @ \o [x \in 1..k |-> Cell("", <<>>)]], n + 1)

\* rows = [r for r in rows if any(r)]
DropEmpty(rs) ==
    SelectSeq(rs, LAMBDA r : \E i \in 1..Len(r) : CellTruth(r[i]))

ParseTableRows(trs) == DropEmpty(PadLoop(GridRows(RowLoop(EmptyMap, trs, 0)), 1))

(***************************************************************************)
(* Inputs of _parse_table_rows.                                            *)
(***************************************************************************)
Texts == {"", "a"}

\* attribute values the entries draw from
ColNames == {<<"col", "2">>}

MoreRowsVals == {<<"1">>}

AttrNames == {"namest", "nameend", "morerows"}

Attribs ==
    UNION {[S -> ColNames \cup MoreRowsVals] : S \in SUBSET AttrNames}

\* the ce:entry nodes: text and attributes, with nameend >= namest
Entries ==
    {td \in [text : Texts, attrib : Attribs] :
        /\ \A a \in DOMAIN td.attrib :
              td.attrib[a] \in (IF a = "morerows" THEN MoreRowsVals ELSE ColNames)
        /\ ColOf(td, "nameend") >= ColOf(td, "namest")}

RECURSIVE Sum(_)
Sum(ns) == IF ns = <<>> THEN 0 ELSE Head(ns) + Sum(Tail(ns))

RECURSIVE Shapes(_, _)
\* the entry counts of the rows of a table: at most nrows rows, at most
\* ncells entries in all
Shapes(nrows, ncells) ==
    IF nrows = 0 THEN {<<>>}
    ELSE {<<>>} \cup
         {<<k>> \o rest : k \in 0..ncells,
                          rest \in {r \in Shapes(nrows - 1, ncells) : TRUE}}

RECURSIVE Cut(_, _)
\* the rows of the given entry counts, cut from the entries in document order
Cut(flat, shape) ==
    IF shape = <<>> THEN <<>>
    ELSE <<SubSeq(flat, 1, Head(shape))>>
         \o Cut(SubSeq(flat, Head(shape) + 1, Len(flat)), Tail(shape))

TableInit ==
    /\ \E shape \in {sh \in Shapes(MaxRows, MaxCells) : Sum(sh) <= MaxCells} :
          \E flat \in [1..Sum(shape) -> Entries] :
             els = Cut(flat, shape)
    /\ rows = <<>>
    /\ pc = "parse_table_rows"

CallParseTableRows ==
    /\ pc = "parse_table_rows"
    /\ rows' = ParseTableRows(els)
    /\ pc' = "parse_table_rows_done"
    /\ UNCHANGED <<els, dvars, hvars, rvars>>

TableIdle == els = <<>> /\ rows = <<>>

(***************************************************************************)
(* ElsevierXmlReader.detect                                                *)
(***************************************************************************)
\* truth value of an optional string: None and '' are false
Truthy(opt) == opt # <<>> /\ opt[1] # <<>>

\* s.endswith(suffix)
EndsWith(s, suffix) ==
    /\ Len(s) >= Len(suffix)
    /\ SubSeq(s, Len(s) - Len(suffix) + 1, Len(s)) = suffix

\* s.startswith(prefix)
StartsWith(s, prefix) ==
    /\ Len(s) >= Len(prefix)
    /\ SubSeq(s, 1, Len(prefix)) = prefix

\* needle in hay
Contains(hay, needle) ==
    \E i \in 0..(Len(hay) - Len(needle)) : SubSeq(hay, i + 1, i + Len(needle)) = needle

DotXml == <<".", "x", "m", "l">>

\* b'xmlns="http://www.elsevier.com/xml/svapi/article/dtd"', as two tokens
ElsevierNamespace == <<"xmlns=", "\"http://www.elsevier.com/xml/svapi/article/dtd\"">>

\* detection by content alone, whatever the file name
DetectByContent(bytes, name) == Contains(bytes, ElsevierNamespace)

Detect(bytes, name) ==
    IF Truthy(name) /\ ~EndsWith(name[1], DotXml) THEN FALSE
    ELSE IF Contains(bytes, ElsevierNamespace) THEN TRUE
    ELSE FALSE

\* inputs of detect
MaxNameLen == 4     \* characters of a file name
MaxBytes == 2       \* tokens of a file's content

NameChars == {".", "x", "m", "l"}

ByteTokens == {"xmlns=", "\"http://www.elsevier.com/xml/svapi/article/dtd\"",
               "\"http://www.elsevier.com/xml/ja/dtd\""}

DetectInit ==
    /\ pc = "detect"
    /\ \E n \in 0..MaxBytes : fstring \in [1..n -> ByteTokens]
    /\ \/ fname = <<>>
       \/ \E n \in 0..MaxNameLen : \E s \in [1..n -> NameChars] : fname = <<s>>
    /\ detected = FALSE

CallDetect ==
    /\ pc = "detect"
    /\ detected' = Detect(fstring, fname)
    /\ pc' = "detect_done"
    /\ UNCHANGED <<fstring, fname, tvars, hvars, rvars>>

DetectIdle == fstring = <<>> /\ fname = <<>> /\ detected = FALSE

(***************************************************************************)
(* fix_elsevier_xml_whitespace                                             *)
(* An element is [id, tag, text, tail, kids]; text and tail are <<>> for    *)
(* None and <<s>> for a string s, kids are the children.  The element      *)
(* handed in is the parent of the ce:hsp nodes.                            *)
(***************************************************************************)
\* (x or '')
OrEmpty(opt) == IF Truthy(opt) THEN opt[1] ELSE <<>>

\* parent.index(el)
IndexOf(kids, id) == CHOOSE i \in 1..Len(kids) : kids[i].id = id

\* target + ('' if target.endswith(' ') else ' ') + el.text
AppendText(target, text) ==
    IF EndsWith(target, <<" ">>) THEN target \o text ELSE target \o <<" ">> \o text

\* (target or '') + ('' if el.tail.startswith(' ') else ' ') + el.tail
AppendTail(target, tail) ==
    IF StartsWith(tail, <<" ">>) THEN OrEmpty(target) \o tail
    ELSE OrEmpty(target) \o <<" ">> \o tail

\* if el.text and isinstance(el.tag, six.string_types): hsp is el, and the tag
\* of an element that the xpath selects is always a string
SpliceText(parent, index) ==
    LET hsp == parent.kids[index]
    IN IF ~Truthy(hsp.text) THEN parent
       ELSE IF index = 1
       THEN IF Truthy(parent.text)
            THEN [parent EXCEPT !.text = <<AppendText(parent.text[1], hsp.text[1])>>]
            ELSE parent
       ELSE IF Truthy(parent.kids[index - 1].tail)
            THEN [parent EXCEPT !.kids[index - 1].tail =
                                    <<AppendText(@[1], hsp.text[1])>>]
            ELSE parent

\* if el.tail: ...
SpliceTail(parent, index) ==
    LET hsp == parent.kids[index]
    IN IF ~Truthy(hsp.tail) THEN parent
       ELSE IF Len(hsp.kids) > 0
       THEN [parent EXCEPT !.kids[index].kids[Len(hsp.kids)].tail =
                               <<OrEmpty(@) \o hsp.tail[1]>>]
       ELSE IF index = 1
       THEN [parent EXCEPT !.text = <<AppendTail(@, hsp.tail[1])>>]
       ELSE [parent EXCEPT !.kids[index - 1].tail = <<AppendTail(@, hsp.tail[1])>>]

\* parent[index:index + 1] = el[:]
SpliceOut(parent, index) ==
    [parent EXCEPT !.kids =
        SubSeq(@, 1, index - 1) \o @[index].kids \o SubSeq(@, index + 1, Len(@))]

\* the body of the loop, for the ce:hsp node of the given id
FixOne(parent, id) ==
    LET index == IndexOf(parent.kids, id)
    IN SpliceOut(SpliceTail(SpliceText(parent, index), index), index)

RECURSIVE FixLoop(_, _)
\* for el in document.xpath('.//ce:hsp'): the nodes are selected before the
\* first of them is spliced out
FixLoop(parent, ids) ==
    IF ids = <<>> THEN parent ELSE FixLoop(FixOne(parent, Head(ids)), Tail(ids))

HspIds(parent) ==
    LET hsps == SelectSeq(parent.kids, LAMBDA c : c.tag = "ce:hsp")
    IN [i \in 1..Len(hsps) |-> hsps[i].id]

FixElsevierXmlWhitespace(parent) == FixLoop(parent, HspIds(parent))

\* inputs of fix_elsevier_xml_whitespace
MaxChildren == 2    \* children of the parent element

Opt(S) == {<<>>} \cup {<<x>> : x \in S}

ContextStrings == {<<>>, <<" ">>, <<"a">>, <<"a", " ">>, <<" ", "a">>}

HspTexts == {<<>>, <<"a">>}

Leaf(id, tail) == [id |-> id, tag |-> "ce:italic", text |-> <<>>, tail |-> tail, kids |-> <<>>]

\* the shapes of a child: a ce:hsp node with at most one child of its own,
\* or another element
ChildShapes ==
    {[tag |-> "ce:hsp", text |-> x, tail |-> t, kids |-> k] :
        x \in Opt(HspTexts), t \in Opt(ContextStrings),
        k \in {<<>>} \cup {<<Leaf(0, kt)>> : kt \in Opt({<<"a">>})}}
    \cup {[tag |-> "ce:italic", text |-> <<>>, tail |-> t, kids |-> <<>>] :
            t \in Opt(ContextStrings)}

\* the child at position p, its nodes numbered by their place in the input
Numbered(shape, p) ==
    [id |-> <<p>>, tag |-> shape.tag, text |-> shape.text, tail |-> shape.tail,
     kids |-> [i \in 1..Len(shape.kids) |-> [shape.kids[i] EXCEPT !.id = <<p, i>>]]]

HspInit ==
    /\ pc = "fix_elsevier_xml_whitespace"
    /\ \E x \in Opt(ContextStrings) : \E n \in 0..MaxChildren :
         \E shapes \in [1..n -> ChildShapes] :
            source = [id |-> <<>>, tag |-> "ce:para", text |-> x, tail |-> <<>>,
                      kids |-> [p \in 1..n |-> Numbered(shapes[p], p)]]
    /\ document = source

CallFixElsevierXmlWhitespace ==
    /\ pc = "fix_elsevier_xml_whitespace"
    /\ document' = FixElsevierXmlWhitespace(document)
    /\ pc' = "fix_elsevier_xml_whitespace_done"
    /\ UNCHANGED <<source, tvars, dvars, rvars>>

HspIdle == source = <<>> /\ document = <<>>

(***************************************************************************)
(* What a method call ends with: a value returned or an exception raised.  *)
(***************************************************************************)
Return(v) == [kind |-> "return", exc |-> "", value |-> v]

Raise(e) == [kind |-> "raise", exc |-> e, value |-> <<>>]

(***************************************************************************)
(* ElsevierXmlReader._parse_figure                                         *)
(* The figure node is [caps, link]: the matches of figure_caption_css and   *)
(* of figure_link_css under it, a link being its attribute dictionary.      *)
(* The root is the texts of its xocs:attachment xocs:filename nodes.        *)
(***************************************************************************)
UrlBase == "https://ars.els-cdn.com/content/image/1-s2.0-"

LrgMarker == "_lrg"

\* link[0].attrib['{http://www.w3.org/1999/xlink}href'].split('/')[0][4:]
PiiOf(href) == LET first == Head(Split(href, "/", <<>>))
               IN SubSeq(first, 5, Len(first))

ParseFigure(fig, filenames) ==
    LET caption == IF fig.caps # <<>> THEN Head(fig.caps) ELSE ""
        link == fig.link
    IN IF link # <<>> /\ "locator" \notin DOMAIN link[1]
       THEN Raise("KeyError")
       ELSE
       LET img_id == IF link # <<>> THEN link[1]["locator"] ELSE <<>>
           \* if img_id is not None: a string is never None
           filename_candidates ==
               SelectSeq(filenames,
                         LAMBDA f : Contains(f, img_id) /\ Contains(f, <<LrgMarker>>))
       IN IF link = <<>> THEN Raise("IndexError")
          ELSE IF "href" \notin DOMAIN link[1] THEN Raise("KeyError")
          ELSE IF filename_candidates = <<>> THEN Raise("AttributeError")
          ELSE Return(<<[type |-> "Figure", caption |-> caption,
                         url |-> <<UrlBase>> \o PiiOf(link[1]["href"]) \o <<"-">>
                                 \o Head(filename_candidates),
                         id |-> img_id]>>)

\* inputs of _parse_figure
MaxFilenames == 2   \* xocs:filename nodes of the document

Href == <<"p", "i", "i", ":", "S0001", "/", "gr1">>

LinkAttribs ==
    {f \in UNION {[S -> {<<"gr1">>, Href}] : S \in SUBSET {"locator", "href"}} :
        /\ "locator" \in DOMAIN f => f["locator"] = <<"gr1">>
        /\ "href" \in DOMAIN f => f["href"] = Href}

Figures == [caps : {<<>>, <<"caption">>}, link : {<<>>} \cup {<<a>> : a \in LinkAttribs}]

FilenameTexts == {<<"gr1", "_lrg", ".jpg">>, <<"gr1", ".jpg">>,
                  <<"gr2", "_lrg", ".jpg">>, <<"gr1", ".sml">>}

FigureInit ==
    /\ pc = "_parse_figure"
    /\ el \in Figures
    /\ \E n \in 0..MaxFilenames : root \in [1..n -> FilenameTexts]
    /\ result = <<>>

CallParseFigure ==
    /\ pc = "_parse_figure"
    /\ result' = ParseFigure(el, root)
    /\ pc' = "_parse_figure_done"
    /\ UNCHANGED <<el, root, tvars, dvars, hvars>>

(***************************************************************************)
(* ElsevierXmlReader._parse_metadata                                       *)
(* The metadata node is a function from the fields to the texts of the     *)
(* nodes their selectors match under it.                                   *)
(***************************************************************************)
MetaFields == {"title", "authors", "publisher", "journal", "date", "language",
               "volume", "issue", "firstpage", "lastpage", "doi", "pii",
               "pdf_url", "html_url"}

url_prefix == "https://sciencedirect.com/science/article/pii/"

\* x[0].text if x else None
FirstText(matches) == IF matches # <<>> THEN <<Head(matches)>> ELSE <<>>

ParseMetadata(meta) ==
    IF meta["html_url"] = <<>> /\ meta["pii"] = <<>> THEN Raise("IndexError")
    ELSE Return(<<[type |-> "MetaData",
                   _title |-> FirstText(meta["title"]),
                   _authors |-> IF meta["authors"] # <<>> THEN <<meta["authors"]>> ELSE <<>>,
                   _publisher |-> FirstText(meta["publisher"]),
                   _journal |-> FirstText(meta["journal"]),
                   _date |-> FirstText(meta["date"]),
                   _language |-> FirstText(meta["language"]),
                   _volume |-> FirstText(meta["volume"]),
                   _issue |-> FirstText(meta["issue"]),
                   _firstpage |-> FirstText(meta["firstpage"]),
                   _lastpage |-> FirstText(meta["lastpage"]),
                   _doi |-> FirstText(meta["doi"]),
                   _pdf_url |-> IF meta["pdf_url"] # <<>>
                                THEN <<url_prefix \o Head(meta["pdf_url"])>> ELSE <<>>,
                   _html_url |-> IF meta["html_url"] # <<>>
                                 THEN <<url_prefix \o Head(meta["html_url"])>>
                                 ELSE <<url_prefix \o Head(meta["pii"])>>]>>)

\* inputs of _parse_metadata: the fields that are present
MetadataInit ==
    /\ pc = "_parse_metadata"
    /\ \E present \in SUBSET MetaFields :
         el = [f \in MetaFields |-> IF f \in present THEN <<f>> ELSE <<>>]
    /\ root = <<>>
    /\ result = <<>>

CallParseMetadata ==
    /\ pc = "_parse_metadata"
    /\ result' = ParseMetadata(el)
    /\ pc' = "_parse_metadata_done"
    /\ UNCHANGED <<el, root, tvars, dvars, hvars>>

(***************************************************************************)
(* ElsevierXmlReader.parse                                                 *)
(* The bytes are described by what they parse to: whether a tree can be    *)
(* built, whether it holds a full-text-retrieval-response element, the     *)
(* nodes under that element in document order, each [tag, fig] with fig    *)
(* the figure of a ce:figure node, and the attachment file names.          *)
(***************************************************************************)
root_css == "default:full-text-retrieval-response"
title_css == "dc:title"
heading_css == "ce:section-title"
figure_css == "ce:figure"
table_css == "ce:table"
citation_css == "ce:bib-reference"
metadata_css == "xocs:meta"

\* the tags of ignore_css that the documents of the model hold
ignore_css == {"xocs:meta", "ce:doi"}

\* self._make_tree(fstring): None (<<>>) when no tree can be built
MakeTree(bytes) == IF bytes.built THEN <<bytes>> ELSE <<>>

\* self._css(css, root): the positions of the nodes of the given tags
Css(tags, tree) == SelectSeq([i \in 1..Len(tree.nodes) |-> i],
                             LAMBDA i : tree.nodes[i].tag \in tags)

\* for cleaner in self.cleaners: cleaner(root).  The cleaners rewrite text and
\* tails and strip or kill inline markup (ce:hsp, ce:inf, ce:cross-ref, ...);
\* they leave every node of the tags below in its place.
Cleaners(tree) == [tree EXCEPT !.nodes = SelectSeq(@, LAMBDA n : n.tag # "ce:hsp")]

RECURSIVE SetAll(_, _, _)
\* for node in nodes: specials[node] = value
SetAll(specials, nodes, value) ==
    IF nodes = <<>> THEN specials
    ELSE SetAll((Head(nodes) :> value) @@ specials, Tail(nodes), value)

RECURSIVE FigureLoop(_, _, _)
\* for figure in figures: specials[figure] = self._parse_figure(figure, root, ...)
\* st is [specials, raised]
FigureLoop(st, figures, tree) ==
    IF figures = <<>> \/ st.raised # "" THEN st
    ELSE LET r == ParseFigure(tree.nodes[Head(figures)].fig, tree.filenames)
         IN IF r.kind = "raise"
            THEN [st EXCEPT !.raised = r.exc]
            ELSE FigureLoop([st EXCEPT !.specials = (Head(figures) :> r.value) @@ @],
                            Tail(figures), tree)

RECURSIVE ParseElement(_, _, _)
\* self._parse_element(root, specials=specials, refs=refs): the elements of
\* the nodes in document order, a node of specials standing for its list
ParseElement(tree, specials, i) ==
    IF i > Len(tree.nodes) THEN <<>>
    ELSE (IF i \in DOMAIN specials THEN specials[i] ELSE <<[type |-> "Paragraph"]>>)
         \o ParseElement(tree, specials, i + 1)

Parse(bytes) ==
    LET made == MakeTree(bytes)
    IN IF made = <<>> THEN Raise("ReaderError")
       ELSE IF ~made[1].hasroot THEN Raise("IndexError")
       ELSE
       LET tree == Cleaners(made[1])
           s1 == SetAll(EmptyMap, Css(ignore_css, tree), <<>>)
           s2 == SetAll(s1, Css({title_css}, tree), <<[type |-> "Title"]>>)
           s3 == SetAll(s2, Css({heading_css}, tree), <<[type |-> "Heading"]>>)
           s4 == FigureLoop([specials |-> s3, raised |-> ""], Css({figure_css}, tree), tree)
           s5 == SetAll(s4.specials, Css({table_css}, tree), <<[type |-> "Table"]>>)
           s6 == SetAll(s5, Css({citation_css}, tree), <<[type |-> "Citation"]>>)
       IN IF s4.raised # "" THEN Raise(s4.raised)
          ELSE Return(ParseElement(tree, s6, 1))

\* inputs of parse
MaxNodes == 3       \* nodes under the document root

GoodFigure == [caps |-> <<"caption">>,
               link |-> <<[locator |-> <<"gr1">>, href |-> Href]>>]

NoFigure == [caps |-> <<>>, link |-> <<>>]

Nodes ==
    {[tag |-> t, fig |-> NoFigure] :
        t \in {title_css, heading_css, table_css, citation_css, metadata_css,
               "ce:doi", "ce:para", "ce:hsp"}}
    \cup {[tag |-> figure_css, fig |-> f] : f \in {GoodFigure, NoFigure}}

ParseInit ==
    /\ pc = "parse"
    /\ \E b, h \in BOOLEAN : \E n \in 0..MaxNodes : \E ns \in [1..n -> Nodes] :
         \E fs \in {<<>>, <<<<"gr1", "_lrg", ".jpg">>>>} :
            fstring = [built |-> b, hasroot |-> h, nodes |-> ns, filenames |-> fs]
    /\ el = <<>>
    /\ root = <<>>
    /\ result = <<>>

CallParse ==
    /\ pc = "parse"
    /\ result' = Parse(fstring)
    /\ pc' = "parse_done"
    /\ UNCHANGED <<fstring, fname, detected, el, root, tvars, hvars>>

ReaderIdle == el = <<>> /\ root = <<>> /\ result = <<>>

(***************************************************************************)
(* Specifications: one call of one method of the reader.                   *)
(***************************************************************************)
TableStart == TableInit /\ DetectIdle /\ HspIdle /\ ReaderIdle

DetectStart == DetectInit /\ TableIdle /\ HspIdle /\ ReaderIdle

HspStart == HspInit /\ TableIdle /\ DetectIdle /\ ReaderIdle

FigureStart == FigureInit /\ TableIdle /\ DetectIdle /\ HspIdle

MetadataStart == MetadataInit /\ TableIdle /\ DetectIdle /\ HspIdle

ParseStart == ParseInit /\ TableIdle /\ fname = <<>> /\ detected = FALSE /\ HspIdle

SpecTable == TableStart /\ [][CallParseTableRows]_vars

SpecDetect == DetectStart /\ [][CallDetect]_vars

SpecHsp == HspStart /\ [][CallFixElsevierXmlWhitespace]_vars

SpecFigure == FigureStart /\ [][CallParseFigure]_vars

SpecMetadata == MetadataStart /\ [][CallParseMetadata]_vars

SpecParse == ParseStart /\ [][CallParse]_vars

Init ==
    \/ TableStart
    \/ DetectStart
    \/ HspStart
    \/ FigureStart
    \/ MetadataStart
    \/ ParseStart

Next ==
    \/ CallParseTableRows
    \/ CallDetect
    \/ CallFixElsevierXmlWhitespace
    \/ CallParseFigure
    \/ CallParseMetadata
    \/ CallParse

Spec == Init /\ [][Next]_vars

(***************************************************************************)
(* Properties of _parse_table_rows.                                        *)
(***************************************************************************)
\* the grid before padding and dropping
SparseRows == GridRows(RowLoop(EmptyMap, els, 0))

IsEmptyCell(c) == c.text = ""

\* C1: the rows returned by _parse_table_rows all have the same length, and
\* no returned row consists only of empty cells.
C1_EqualLengthNoEmptyRow ==
    pc = "parse_table_rows_done" =>
        /\ \A i, j \in 1..Len(rows) : Len(rows[i]) = Len(rows[j])
        /\ \A i \in 1..Len(rows) : \E c \in 1..Len(rows[i]) : ~IsEmptyCell(rows[i][c])

\* a table whose rows came out ragged and were padded, one of them dropped
\* as empty and one of them kept
C1_Witness ==
    /\ pc = "parse_table_rows_done"
    /\ \E i, j \in 1..Len(SparseRows) : Len(SparseRows[i]) < Len(SparseRows[j])
    /\ Len(rows) < Len(SparseRows)
    /\ Len(rows) >= 1

NoSpanAttributes ==
    \A r \in 1..Len(els) : \A k \in 1..Len(els[r]) : DOMAIN els[r][k].attrib = {}

\* the raw row/cell layout: row r holds its own entries in document order
RawLayout ==
    [r \in 1..Len(els) |-> [k \in 1..Len(els[r]) |-> Cell(els[r][k].text, <<r - 1, k>>)]]

\* C2 as stated: with no namest, nameend or morerows attribute anywhere, the
\* grid returned equals the raw row/cell layout exactly, no row missing and
\* no padding cell added.
C2_RawLayoutExactly ==
    (pc = "parse_table_rows_done" /\ NoSpanAttributes) => rows = RawLayout

RawWidth ==
    IF Len(els) = 0 THEN 0
    ELSE CHOOSE n \in {Len(els[r]) : r \in 1..Len(els)} :
            \A r \in 1..Len(els) : Len(els[r]) <= n

\* C2 as amended: with no span attribute anywhere, the grid returned is the
\* raw layout in row order without the rows that hold no non-empty cell,
\* each kept row holding exactly its own entries in document order followed
\* by empty cells up to the width of the widest source row.
C2_RawLayoutPaddedAndFiltered ==
    (pc = "parse_table_rows_done" /\ NoSpanAttributes) =>
        LET kept == SelectSeq(RawLayout,
                              LAMBDA r : \E k \in 1..Len(r) : ~IsEmptyCell(r[k]))
        IN /\ Len(rows) = Len(kept)
           /\ \A i \in 1..Len(kept) :
                 /\ Len(rows[i]) = RawWidth
                 /\ SubSeq(rows[i], 1, Len(kept[i])) = kept[i]
                 /\ \A c \in (Len(kept[i]) + 1)..RawWidth :
                       rows[i][c] = Cell("", <<>>)

\* a table without span attributes, with rows of different lengths, parsed
C2_Witness ==
    /\ pc = "parse_table_rows_done"
    /\ NoSpanAttributes
    /\ Len(rows) = 2
    /\ Len(els[1]) # Len(els[2])

\* C3: every entry with morerows="1" (and non-empty content) has its content
\* in its own row and in the row directly below, at the same column index.
C3_RowSpanSameColumn ==
    pc = "parse_table_rows_done" =>
        \A r \in 1..Len(els) : \A k \in 1..Len(els[r]) :
            (/\ "morerows" \in DOMAIN els[r][k].attrib
             /\ els[r][k].attrib["morerows"] = <<"1">>
             /\ els[r][k].text # "")
            => \E i \in 1..Len(rows) : \E c \in 1..Len(rows[i]) :
                  /\ rows[i][c].src = <<r - 1, k>>
                  /\ i + 1 <= Len(rows)
                  /\ c <= Len(rows[i + 1])
                  /\ rows[i + 1][c].text = els[r][k].text

(***************************************************************************)
(* Properties of detect.                                                   *)
(***************************************************************************)
NameGiven == fname # <<>>

\* C9 as stated: detect returns true exactly when (fname is not given, or
\* fname ends with '.xml') and fstring contains the namespace declaration.
C9_DetectExactly ==
    pc = "detect_done" =>
        (detected <=> (/\ (~NameGiven \/ EndsWith(fname[1], DotXml))
                       /\ Contains(fstring, ElsevierNamespace)))

\* C9 as amended: detect returns true exactly when (fname is not given or is
\* the empty string, or fname ends with '.xml') and fstring contains the
\* namespace declaration.
C9_DetectExactlyOrEmptyName ==
    pc = "detect_done" =>
        (detected <=> (/\ (~NameGiven \/ fname[1] = <<>> \/ EndsWith(fname[1], DotXml))
                       /\ Contains(fstring, ElsevierNamespace)))

\* a file holding the namespace declaration, refused for its name
C9_Witness ==
    /\ pc = "detect_done"
    /\ NameGiven
    /\ fname[1] # <<>>
    /\ ~EndsWith(fname[1], DotXml)
    /\ Contains(fstring, ElsevierNamespace)
    /\ detected = FALSE

(***************************************************************************)
(* Properties of fix_elsevier_xml_whitespace.                              *)
(***************************************************************************)
HasText(opt) == Truthy(opt) /\ \E i \in 1..Len(opt[1]) : opt[1][i] # " "

RECURSIVE RStrip(_)
RStrip(s) == IF s # <<>> /\ s[Len(s)] = " " THEN RStrip(SubSeq(s, 1, Len(s) - 1)) ELSE s

RECURSIVE LStrip(_)
LStrip(s) == IF s # <<>> /\ Head(s) = " " THEN LStrip(Tail(s)) ELSE s

\* the ce:hsp nodes of the input that no other ce:hsp node precedes in their
\* parent: what precedes them stays in place while they are spliced out
LeadingHsps ==
    {p \in 1..Len(source.kids) :
        /\ source.kids[p].tag = "ce:hsp"
        /\ \A q \in 1..(p - 1) : source.kids[q].tag # "ce:hsp"}

\* the text that preceded the node at position p of the input
TextBefore(p) == IF p = 1 THEN source.text ELSE source.kids[p - 1].tail

\* the same text field in the output
TextBeforeNow(p) ==
    IF p = 1 THEN document.text
    ELSE document.kids[IndexOf(document.kids, <<p - 1>>)].tail

\* C4: where a ce:hsp node without text or children sat between two texts,
\* exactly one space separates the two texts afterwards.
C4_ExactlyOneSpaceAtJunction ==
    pc = "fix_elsevier_xml_whitespace_done" =>
        \A p \in LeadingHsps :
            LET hsp == source.kids[p]
            IN (/\ ~Truthy(hsp.text)
                /\ hsp.kids = <<>>
                /\ HasText(TextBefore(p))
                /\ HasText(hsp.tail))
               => /\ Truthy(TextBeforeNow(p))
                  /\ StartsWith(TextBeforeNow(p)[1],
                                RStrip(TextBefore(p)[1]) \o <<" ">> \o LStrip(hsp.tail[1]))

\* C10: the leading text of a ce:hsp node is appended to the previous
\* sibling's tail, or to the parent's text without one, after a single space
\* unless the target already ends with a space (with or without the space
\* where the target is empty or None).
C10_LeadingTextAppended ==
    pc = "fix_elsevier_xml_whitespace_done" =>
        \A p \in LeadingHsps :
            LET hsp == source.kids[p]
                target == OrEmpty(TextBefore(p))
            IN Truthy(hsp.text)
               => /\ Truthy(TextBeforeNow(p))
                  /\ \/ StartsWith(TextBeforeNow(p)[1], AppendText(target, hsp.text[1]))
                     \/ /\ target = <<>>
                        /\ StartsWith(TextBeforeNow(p)[1], hsp.text[1])

(***************************************************************************)
(* Properties of parse, _parse_figure and _parse_metadata.                 *)
(***************************************************************************)
\* C5: parse raises ReaderError when the tree cannot be built and when the
\* tree holds no full-text-retrieval-response element.
C5_ReaderErrorOnBadRoot ==
    (pc = "parse_done" /\ (~fstring.built \/ ~fstring.hasroot))
        => result = Raise("ReaderError")

\* C6: _parse_figure returns exactly one Figure element for every figure
\* node and never raises.
C6_FigureAlwaysReturned ==
    pc = "_parse_figure_done" =>
        /\ result.kind = "return"
        /\ Len(result.value) = 1
        /\ result.value[1].type = "Figure"

\* C7: for a document that has a metadata block, the Document returned by
\* parse contains a MetaData element.
C7_MetaDataInDocument ==
    (/\ pc = "parse_done"
     /\ result.kind = "return"
     /\ \E i \in 1..Len(fstring.nodes) : fstring.nodes[i].tag = metadata_css)
        => \E j \in 1..Len(result.value) : result.value[j].type = "MetaData"

\* C8: _parse_metadata returns exactly one MetaData element for every
\* combination of present and absent fields, and raises no error.
C8_MetaDataAlwaysReturned ==
    pc = "_parse_metadata_done" =>
        /\ result.kind = "return"
        /\ Len(result.value) = 1
        /\ result.value[1].type = "MetaData"

====
